---- MODULE Spec2Model ----
(***************************************************************************)
(* Model of ngmix/fitting/galsim_results.py: the Fourier-space fit model   *)
(* GalsimFitModel and its Spergel and Moffat subclasses, called by one     *)
(* caller or by two threads; and of ngmix/gaussmom.py: GaussMom.go.        *)
(*                                                                         *)
(* Numbers are fixed-point integers.  Sizes (r50) are in units of 5e-5, so *)
(* the guard "r50 < 0.0001" is "r50 < 2".  Shears are in units of 0.5, so  *)
(* g1 = 1.5 is 3 and the renderer's |g| > 1 is g1^2 + g2^2 > 4.  A complex *)
(* number is a pair <<re, im>>; a 2-d array is its ravel()ed sequence.     *)
(* Exceptions are named by their Python class.                             *)
(***************************************************************************)
EXTENDS Integers, Sequences, FiniteSets, TLC

\* ---------------------------------------------------------------- bounds
MaxBand  == 2
MaxEpoch == 2
MaxPix   == 2
MaxObs   == 3

\* ------------------------------------------------------ program constants
LOWVAL == -9999
R50Min == 2

VARIABLES
    pc,            \* "new", "ready" (constructed), "failed" (__init__ raised)
    gs,            \* the external renderer's (fixed) failure behaviour
    model,         \* self.model
    prior,         \* self.prior is not None
    nband,         \* self.nband
    mb_kobs,       \* self.mb_kobs: bands -> epochs -> kobs (with its meta)
    n_prior_pars,  \* self.n_prior_pars
    totpix,        \* self.totpix
    fdiff_size,    \* self.fdiff_size
    npars,         \* self.npars
    band_pars,     \* self._band_pars
    res,           \* the entries of self (a dict) that set_fit_result writes
    held,          \* the caller kept the array that get_band_pars returned
    th,            \* the calls in progress on the object, one per thread
    mom,           \* gaussmom.py: the last GaussMom.go call and its outcome
    last           \* the last call made on the object and its outcome

vars == <<pc, gs, model, prior, nband, mb_kobs, n_prior_pars, totpix,
          fdiff_size, npars, band_pars, res, held, th, mom, last>>

\* ------------------------------------------------------------ value sets
BaseModels  == {"exp", "dev", "gauss"}
ExtraModels == {"spergel", "moffat"}
ModelNames  == BaseModels \cup ExtraModels \cup {"sersic"}
Classes     == {"GalsimFitModel", "GalsimSpergelFitModel",
                "GalsimMoffatFitModel"}
\* classes of the renderer's exceptions: a plain RuntimeError, a plain
\* ValueError, or a class that derives from both (GalSimRangeError)
ErrKinds    == {"RuntimeError", "ValueError", "GalSimRangeError"}

CenVals   == {0}
G1Vals    == {0, 3}
G2Vals    == {1}
R50Vals   == {1, 2}
ExtraVals == {2}
FluxVals  == {1, 2}
BadFlux   == CHOOSE f \in FluxVals : \A g \in FluxVals : f >= g

None == <<>>

\* ------------------------------------------------------------- utilities
\* a numpy array holds values: Arr evaluates a sequence expression once
Arr(f) == f \o <<>>

Zeros(n) == Arr([i \in 1..n |-> 0])

\* the element of a one-element set; Only({F(x) : x \in {e}}) is F(e) with e
\* evaluated once
Only(S) == CHOOSE y \in S : TRUE

RECURSIVE SumSeq(_)
SumSeq(s) == IF s = <<>> THEN 0 ELSE Head(s) + SumSeq(Tail(s))

RECURSIVE Flatten(_)
Flatten(ss) == IF ss = <<>> THEN <<>> ELSE Head(ss) \o Flatten(Tail(ss))

CMul(a, b) == <<a[1] * b[1] - a[2] * b[2], a[1] * b[2] + a[2] * b[1]>>
CSub(a, b) == <<a[1] - b[1], a[2] - b[2]>>

\* np.sqrt on the fixed-point integers: the floor of the square root
Sqrt(n) == CHOOSE r \in 0..n : r * r <= n /\ (r + 1) * (r + 1) > n

\* ------------------------------------------------ model variant registry
get_galsim_npars_exc(m) ==
    IF m \in BaseModels \cup ExtraModels THEN "none" ELSE "ValueError"

\* mutant: the extra shape parameter of spergel and moffat is not counted
get_galsim_npars_noextra(m, nb) ==
    IF m \in {"exp", "dev", "gauss", "spergel", "moffat"} THEN 5 + nb ELSE 0

get_galsim_npars(m, nb) ==
    IF m \in {"exp", "dev", "gauss"} THEN 5 + nb
    ELSE IF m \in {"spergel", "moffat"} THEN 6 + nb
    ELSE 0

\* mutant: the base class accepts every name
set_model_class_exc_lax(cl, m) == "none"

\* _set_model_class of the class cl given self.model = m
\* (the subclasses override it and accept whatever name they are given)
set_model_class_exc(cl, m) ==
    IF cl = "GalsimFitModel" /\ m \notin {"exp", "dev", "gauss"}
    THEN "NotImplementedError" ELSE "none"

\* the code of the renderer class bound by _set_model_class
ModelClass(m) ==
    CASE m = "exp"     -> 1
      [] m = "dev"     -> 2
      [] m = "gauss"   -> 3
      [] m = "spergel" -> 4
      [] m = "moffat"  -> 5
      [] OTHER         -> 0

\* ------------------------------------------------ observations (inputs)
\* number of epochs of band b (1-based), pixels of the k-image of an epoch
NEpoch(b)  == 1 + (b % MaxEpoch)
NPix(b, e) == 1 + ((b + e) % MaxPix)

KImage(b, e)  == Arr([i \in 1..NPix(b, e) |-> <<b + i, e - i>>])
WeightPat     == <<4, 0, 1, -1>>
\* the weight map of an observation; a masked observation has no pixel of
\* positive weight
ObsKinds      == {"plain", "masked"}
Weight(b, e, obs) ==
    Arr([i \in 1..NPix(b, e) |->
            LET w == WeightPat[((b + e + i) % 4) + 1] IN
            IF obs = "masked" /\ w > 0 THEN 0 ELSE w])
HasPsf(b, e)  == (b + e) % 2 = 1
PsfKImage(b, e) == Arr([i \in 1..NPix(b, e) |-> <<1 + i, b>>])

\* observation.make_kobs: one k-space observation per band and epoch
make_kobs(nb, obs) ==
    [b \in 1..nb |->
        [e \in 1..NEpoch(b) |->
            [kimage |-> KImage(b, e),
             weight |-> Weight(b, e, obs),
             psf    |-> IF HasPsf(b, e) THEN PsfKImage(b, e) ELSE None,
             meta   |-> [kmodel |-> None, scratch |-> None, ierr |-> None]]]]

has_psf(kobs) == kobs.psf # None

\* ------------------------------------------------------------ totals
_set_totpix(mb) ==
    SumSeq(Flatten([b \in 1..Len(mb) |->
                      [e \in 1..Len(mb[b]) |-> Len(mb[b][e].kimage)]]))

\* mutant: the subclasses inherit the count of the base class
_set_n_prior_pars_base(m, hasprior, nb) ==
    IF ~hasprior THEN 0 ELSE 1 + 1 + 1 + 1 + nb

_set_n_prior_pars(m, hasprior, nb) ==
    IF ~hasprior THEN 0
    ELSE IF m \in ExtraModels THEN 1 + 1 + 1 + 1 + 1 + nb
    ELSE 1 + 1 + 1 + 1 + nb

\* mutant: the imaginary parts are not counted
_set_fdiff_size_half(np, tp) == np + tp

_set_fdiff_size(np, tp) == np + 2 * tp

\* ------------------------------------------------ model images in meta
\* mutant: the square root of |weight| is taken at every pixel
ierr_of_abs(weight) ==
    Arr([i \in 1..Len(weight) |->
            Sqrt(IF weight[i] > 0 THEN weight[i] ELSE -weight[i])])

ierr_of(weight) ==
    Arr([i \in 1..Len(weight) |->
            IF weight[i] > 0 THEN Sqrt(weight[i]) ELSE 0])

_create_models_in_kobs(kobs) ==
    [kobs EXCEPT !.meta.kmodel = kobs.kimage, !.meta.scratch = kobs.kimage]

_init_model_images(mb) ==
    [b \in 1..Len(mb) |->
        [e \in 1..Len(mb[b]) |->
            _create_models_in_kobs(
                [mb[b][e] EXCEPT !.meta.ierr = ierr_of(mb[b][e].weight)])]]

_set_band_pars(np, nb) == Zeros(np - nb + 1)

\* ------------------------------------------------ parameter packing
\* mutant: the flux of the first band is taken for every band
get_band_pars_band0(m, buf, pars_in, band) ==
    IF m \in ExtraModels
    THEN Arr([i \in 1..Len(buf) |->
                IF i <= 6 THEN pars_in[i]
                ELSE IF i = 7 THEN pars_in[7] ELSE buf[i]])
    ELSE Arr([i \in 1..Len(buf) |->
                IF i <= 5 THEN pars_in[i]
                ELSE IF i = 6 THEN pars_in[6] ELSE buf[i]])

\* band is 0-based as in the source; buf is self._band_pars, written in place
get_band_pars(m, buf, pars_in, band) ==
    IF m \in ExtraModels
    THEN Arr([i \in 1..Len(buf) |->
                IF i <= 6 THEN pars_in[i]
                ELSE IF i = 7 THEN pars_in[7 + band] ELSE buf[i]])
    ELSE Arr([i \in 1..Len(buf) |->
                IF i <= 5 THEN pars_in[i]
                ELSE IF i = 6 THEN pars_in[6 + band] ELSE buf[i]])

\* ------------------------------------------------ the external renderer
\* The renderer is a deterministic black box.  It rejects shears with
\* |g| > 1, and (depending on gs.stage) it rejects the flux BadFlux either
\* when the profile is constructed or when it is drawn.  It has no size
\* threshold of its own: a small positive half-light radius is a profile.
\* gs.kind is the Python class of the exceptions it raises.
IsRuntimeError(k) == k \in {"RuntimeError", "GalSimRangeError"}
IsValueError(k)   == k \in {"ValueError", "GalSimRangeError"}

CtorFails(flux)    == gs.stage = "ctor" /\ flux = BadFlux
ShearFails(g1, g2) == g1 * g1 + g2 * g2 > 4
DrawFails(gal)     == gs.stage = "draw" /\ gal.flux = BadFlux

\* value of pixel i (1-based) of the k-space image of profile gal
DrawPix(gal, i) ==
    <<gal.flux * (gal.r50 + i) + gal.code + gal.extra,
      gal.shift[1] + 2 * gal.shift[2] + i * (gal.g1 + 2 * gal.g2)>>

drawKImage(gal, n) == Arr([i \in 1..n |-> DrawPix(gal, i)])

\* mutant: the profile is added to what the image holds
_drawKImage_add(gal, kmodel) ==
    Arr([i \in 1..Len(kmodel) |->
            <<kmodel[i][1] + DrawPix(gal, i)[1],
              kmodel[i][2] + DrawPix(gal, i)[2]>>])

\* gal._drawKImage(kmodel): the image is overwritten, not added to
_drawKImage(gal, kmodel) == drawKImage(gal, Len(kmodel))

Ok(gal)         == [exc |-> "none", step |-> "none", gal |-> gal]
Raise(k, where) == [exc |-> k, step |-> where, gal |-> None]

\* ------------------------------------------------ model renderer adapter
make_round_model(m, pars) ==
    IF m \in {"spergel", "moffat"}
    THEN LET r50 == pars[5]  extra == pars[6]  flux == pars[7] IN
         IF CtorFails(flux)
         THEN Raise(IF IsRuntimeError(gs.kind) THEN "GMixRangeError"
                    ELSE gs.kind, "ctor")
         ELSE Ok([code |-> ModelClass(m), r50 |-> r50, flux |-> flux,
                  extra |-> extra, g1 |-> 0, g2 |-> 0, shift |-> <<0, 0>>])
    ELSE LET r50 == pars[5]  flux == pars[6] IN
         IF r50 < R50Min THEN Raise("GMixRangeError", "size")
         ELSE IF CtorFails(flux)
         THEN Raise(IF IsRuntimeError(gs.kind) THEN "GMixRangeError"
                    ELSE gs.kind, "ctor")
         ELSE Ok([code |-> ModelClass(m), r50 |-> r50, flux |-> flux,
                  extra |-> 0, g1 |-> 0, g2 |-> 0, shift |-> <<0, 0>>])

\* mutant: the ValueError of the shear step is not converted
make_model_raw(m, pars) ==
    LET r == make_round_model(m, pars) IN
    IF r.exc # "none" THEN r
    ELSE LET shift == <<pars[1], pars[2]>>
             g1    == pars[3]
             g2    == pars[4]
         IN IF ShearFails(g1, g2)
            THEN Raise(gs.kind, "shear")
            ELSE Ok([r.gal EXCEPT !.g1 = g1, !.g2 = g2, !.shift = shift])

make_model(m, pars) ==
    LET r == make_round_model(m, pars) IN
    IF r.exc # "none" THEN r
    ELSE LET shift == <<pars[1], pars[2]>>
             g1    == pars[3]
             g2    == pars[4]
         IN IF ShearFails(g1, g2)
            THEN Raise(IF IsValueError(gs.kind) THEN "GMixRangeError"
                       ELSE gs.kind, "shear")
            ELSE Ok([r.gal EXCEPT !.g1 = g1, !.g2 = g2, !.shift = shift])

\* ------------------------------------------------ _fill_models
kmul(km, psfk) == Arr([i \in 1..Len(km) |-> CMul(km[i], psfk[i])])

RECURSIVE FillEpochs(_, _, _, _, _)
FillEpochs(m, mb, bp, b, e) ==
    IF e > Len(mb[b]) THEN [mb |-> mb, exc |-> "none", step |-> "none"]
    ELSE LET r == make_model(m, bp) IN
         IF r.exc # "none" THEN [mb |-> mb, exc |-> r.exc, step |-> r.step]
         ELSE IF DrawFails(r.gal)
         THEN [mb |-> mb, exc |-> gs.kind, step |-> "draw"]
         ELSE LET kobs == mb[b][e]
                  km   == _drawKImage(r.gal, kobs.meta.kmodel)
                  km2  == IF has_psf(kobs) THEN kmul(km, kobs.psf) ELSE km
              IN FillEpochs(m, [mb EXCEPT ![b][e].meta.kmodel = km2],
                            bp, b, e + 1)

RECURSIVE FillBands(_, _, _, _, _)
FillBands(m, mb, buf, pars, b) ==
    IF b > Len(mb)
    THEN [mb |-> mb, bp |-> buf, exc |-> "none", step |-> "none"]
    ELSE LET bp == get_band_pars(m, buf, pars, b - 1)
             r  == FillEpochs(m, mb, bp, b, 1)
         IN IF r.exc # "none"
            THEN [mb |-> r.mb, bp |-> bp, exc |-> r.exc, step |-> r.step]
            ELSE FillBands(m, r.mb, bp, pars, b + 1)

_fill_models(m, mb, buf, pars) ==
    LET r == FillBands(m, mb, buf, pars, 1) IN
    [r EXCEPT !.exc = IF IsRuntimeError(@) THEN "GMixRangeError" ELSE @]

\* ------------------------------------------------ prior penalty terms
\* FitModel._fill_priors: the prior writes its penalty terms at the front of
\* fdiff and the number of terms written is the next free offset
PriorTerm(pars, k) == 1000 + 10 * k + pars[k + 1]

_fill_priors(hasprior, nprior, pars, fdiff) ==
    IF ~hasprior THEN [fdiff |-> fdiff, start |-> 0]
    ELSE [fdiff |-> Arr([i \in 1..Len(fdiff) |->
                            IF i <= nprior THEN PriorTerm(pars, i)
                            ELSE fdiff[i]]),
          start |-> nprior]

\* ------------------------------------------------ calc_fdiff
\* fdiff[start:start + len(vals)] = vals, start 0-based
SliceFits(fdiff, start, vals) == start + Len(vals) <= Len(fdiff)

SliceAssign(fdiff, start, vals) ==
    Arr([i \in 1..Len(fdiff) |->
            IF i > start /\ i <= start + Len(vals) THEN vals[i - start]
            ELSE fdiff[i]])

\* mutant: the model is not copied into scratch before the data is subtracted
Residual_stale(kobs) ==
    Arr([i \in 1..Len(kobs.meta.scratch) |->
            LET d == CSub(kobs.meta.scratch[i], kobs.kimage[i]) IN
            <<d[1] * kobs.meta.ierr[i], d[2] * kobs.meta.ierr[i]>>])

\* scratch = (kmodel - kimage) * ierr, real and imaginary part alike
Residual(kobs) ==
    Arr([i \in 1..Len(kobs.meta.scratch) |->
            LET d == CSub(kobs.meta.kmodel[i], kobs.kimage[i]) IN
            <<d[1] * kobs.meta.ierr[i], d[2] * kobs.meta.ierr[i]>>])

RealPart(a) == Arr([i \in 1..Len(a) |-> a[i][1]])
ImagPart(a) == Arr([i \in 1..Len(a) |-> a[i][2]])

\* mutant: the imaginary part is stored before the real part
StoreEpoch_swapped(fdiff, start, scratch) ==
    SliceAssign(SliceAssign(fdiff, start, ImagPart(scratch)),
                start + Len(scratch), RealPart(scratch))

\* the real part of scratch at start, the imaginary part right after it
StoreEpoch(fdiff, start, scratch) ==
    SliceAssign(SliceAssign(fdiff, start, RealPart(scratch)),
                start + Len(scratch), ImagPart(scratch))

RECURSIVE DiffEpochs(_, _, _, _, _)
DiffEpochs(mb, fdiff, start, b, e) ==
    IF e > Len(mb[b])
    THEN [mb |-> mb, fdiff |-> fdiff, start |-> start, exc |-> "none"]
    ELSE LET scratch == Residual(mb[b][e])
             mb2     == [mb EXCEPT ![b][e].meta.scratch = scratch]
             imsize  == Len(scratch)
         IN IF ~SliceFits(fdiff, start, RealPart(scratch))
               \/ ~SliceFits(fdiff, start + imsize, ImagPart(scratch))
            THEN [mb |-> mb2, fdiff |-> fdiff, start |-> start,
                  exc |-> "ValueError"]
            ELSE DiffEpochs(mb2, StoreEpoch(fdiff, start, scratch),
                            start + imsize + imsize, b, e + 1)

RECURSIVE DiffBands(_, _, _, _)
DiffBands(mb, fdiff, start, band) ==
    IF band >= Len(mb)
    THEN [mb |-> mb, fdiff |-> fdiff, start |-> start, exc |-> "none"]
    ELSE LET r == DiffEpochs(mb, fdiff, start, band + 1, 1) IN
         IF r.exc # "none" THEN r
         ELSE DiffBands(r.mb, r.fdiff, r.start, band + 1)

Returned(v, mb, bp, step) ==
    [out |-> "return", exc |-> "none", val |-> v, mb |-> mb, bp |-> bp,
     step |-> step]
Raised(k, mb, bp, step) ==
    [out |-> "raise", exc |-> k, val |-> None, mb |-> mb, bp |-> bp,
     step |-> step]

calc_fdiff(m, mb, buf, hasprior, nprior, size, pars) ==
    LET fdiff == Zeros(size)
        f     == _fill_models(m, mb, buf, pars)
    IN IF f.exc = "GMixRangeError"
       THEN Returned(Arr([i \in 1..size |-> LOWVAL]), f.mb, f.bp, f.step)
       ELSE IF f.exc # "none" THEN Raised(f.exc, f.mb, f.bp, f.step)
       ELSE LET p == _fill_priors(hasprior, nprior, pars, fdiff)
                d == DiffBands(f.mb, p.fdiff, p.start, 0)
            IN IF d.exc # "none" THEN Raised(d.exc, d.mb, f.bp, "fdiff")
               ELSE Returned(d.fdiff, d.mb, f.bp, "none")

\* ------------------------------------------------ calc_s2n_r
RoundPars(bp) ==
    Arr([i \in 1..Len(bp) |-> IF i \in {3, 4} THEN 0 ELSE bp[i]])

\* mutant: no copy is made, the ellipticity is zeroed in the buffer itself
round_pars_nocopy(bp) == [band |-> RoundPars(bp), round |-> RoundPars(bp)]

\* round_pars = band_pars.copy(); round_pars[2:2+2] = 0.0
\* band is what self._band_pars holds afterwards, round the new array
round_pars(bp) == [band |-> bp, round |-> RoundPars(bp)]

\* kmodel := kmodel.real^2 * weight + i kmodel.imag^2 * weight
Power(km, weight) ==
    Arr([i \in 1..Len(km) |->
            <<km[i][1] * km[i][1] * weight[i],
              km[i][2] * km[i][2] * weight[i]>>])

RECURSIVE S2nEpochs(_, _, _, _, _, _)
S2nEpochs(m, mb, bp, s2n_sum, b, e) ==
    IF e > Len(mb[b])
    THEN [mb |-> mb, bp |-> bp, sum |-> s2n_sum, exc |-> "none",
          step |-> "none"]
    ELSE Only({
         LET r == make_model(m, rp.round) IN
         IF r.exc # "none"
         THEN [mb |-> mb, bp |-> rp.band, sum |-> s2n_sum, exc |-> r.exc,
               step |-> r.step]
         ELSE IF DrawFails(r.gal)
         THEN [mb |-> mb, bp |-> rp.band, sum |-> s2n_sum, exc |-> gs.kind,
               step |-> "draw"]
         ELSE LET kobs == mb[b][e]
                  km   == drawKImage(r.gal, Len(kobs.meta.kmodel))
                  km2  == IF has_psf(kobs) THEN kmul(km, kobs.psf) ELSE km
              IN Only({S2nEpochs(m, [mb EXCEPT ![b][e].meta.kmodel = km3],
                                 rp.band,
                                 s2n_sum + SumSeq(RealPart(km3))
                                         + SumSeq(ImagPart(km3)),
                                 b, e + 1) :
                         km3 \in {Power(km2, kobs.weight)}})
         : rp \in {round_pars(bp)}})

RECURSIVE S2nBands(_, _, _, _, _, _)
S2nBands(m, mb, buf, pars, s2n_sum, b) ==
    IF b > Len(mb)
    THEN [mb |-> mb, bp |-> buf, sum |-> s2n_sum, exc |-> "none",
          step |-> "none"]
    ELSE Only({IF r.exc # "none"
               THEN [mb |-> r.mb, bp |-> r.bp, sum |-> r.sum, exc |-> r.exc,
                     step |-> r.step]
               ELSE S2nBands(m, r.mb, r.bp, pars, r.sum, b + 1) :
                  r \in {S2nEpochs(m, mb, get_band_pars(m, buf, pars, b - 1),
                                   s2n_sum, b, 1)}})

\* mutant: the square root of the magnitude of the sum
s2n_abs(s2n_sum) == Sqrt(IF s2n_sum > 0 THEN s2n_sum ELSE -s2n_sum)

\* s2n = np.sqrt(s2n_sum) if s2n_sum > 0.0 else 0.0
s2n(s2n_sum) == IF s2n_sum > 0 THEN Sqrt(s2n_sum) ELSE 0

calc_s2n_r(m, mb, buf, pars) ==
    Only({IF r.exc # "none" THEN Raised(r.exc, r.mb, r.bp, r.step)
          ELSE Returned(s2n(r.sum), r.mb, r.bp, "none") :
             r \in {S2nBands(m, mb, buf, pars, 0, 1)}})

\* ------------------------------------------------ set_fit_result
\* the entries of self: keys is the set of the keys that are present
NoRes == [keys |-> {}, flags |-> 0, pars |-> None, s2n_r |-> 0, g |-> None,
          flux |-> None]

\* self.update(result): dict.update, the entries of result are copied
update(d, result) ==
    [d EXCEPT !.keys = @ \cup {"flags", "pars"},
              !.flags = result.flags, !.pars = result.pars]

\* mutant: the statistics are computed whatever the flags are
flags_ok_any(flags) == TRUE

\* if self['flags'] == 0
flags_ok(flags) == flags = 0

\* FitModel._set_g and FitModel._set_flux: the shape and flux summaries
\* derived from self['pars']
_set_g(m, d) ==
    [d EXCEPT !.keys = @ \cup {"g"}, !.g = <<d.pars[3], d.pars[4]>>]
_set_flux(m, d) ==
    [d EXCEPT !.keys = @ \cup {"flux"},
              !.flux = SubSeq(d.pars, IF m \in ExtraModels THEN 7 ELSE 6,
                              Len(d.pars))]

set_fit_result(m, mb, buf, d, result) ==
    Only({IF flags_ok(d1.flags)
          THEN Only({IF r.out = "raise" THEN [r EXCEPT !.val = d1]
                     ELSE Only({[r EXCEPT !.val = d3] :
                                  d3 \in {_set_flux(m, d2) :
                                            d2 \in {_set_g(m,
                                               [d1 EXCEPT
                                                  !.keys = @ \cup {"s2n_r"},
                                                  !.s2n_r = r.val])}}}) :
                       r \in {calc_s2n_r(m, mb, buf, d1.pars)}})
          ELSE Returned(d1, mb, buf, "none") :
             d1 \in {update(d, result)}})

\* ------------------------------------------------ guess validation
\* mutant: only the first band is built
CheckBands_first(m, buf, guess, band, nb) ==
    LET bp == get_band_pars(m, buf, guess, 0)
        r  == make_model(m, bp)
    IN [bp |-> bp, exc |-> r.exc, step |-> r.step]

RECURSIVE CheckBands(_, _, _, _, _)
CheckBands(m, buf, guess, band, nb) ==
    IF band >= nb THEN [bp |-> buf, exc |-> "none", step |-> "none"]
    ELSE LET bp == get_band_pars(m, buf, guess, band)
             r  == make_model(m, bp)
         IN IF r.exc # "none"
            THEN [bp |-> bp, exc |-> r.exc, step |-> r.step]
            ELSE CheckBands(m, bp, guess, band + 1, nb)

_check_guess(m, buf, guess, np, nb) ==
    IF Len(guess) # np
    THEN [bp |-> buf, exc |-> "ValueError", step |-> "guess_size"]
    ELSE CheckBands(m, buf, guess, 0, nb)

\* ------------------------------------------------ inputs of the calls
\* the shape-independent entries [c1, c2, g1, g2, r50, (extra)]
Shapes(m) ==
    IF m \in ExtraModels
    THEN {<<c1, c2, g1, g2, r, x>> :
            c1 \in CenVals, c2 \in CenVals, g1 \in G1Vals, g2 \in G2Vals,
            r \in R50Vals, x \in ExtraVals}
    ELSE {<<c1, c2, g1, g2, r>> :
            c1 \in CenVals, c2 \in CenVals, g1 \in G1Vals, g2 \in G2Vals,
            r \in R50Vals}

\* a shape the adapter accepts: shear in range, size not below the threshold
GoodShapes(m) ==
    {sh \in Shapes(m) : ~ShearFails(sh[3], sh[4]) /\ sh[5] >= R50Min}

\* one flux per band: all bands alike, or one band different from the others
FluxVecs(nb) ==
    {Arr([b \in 1..nb |-> IF b = k THEN f ELSE 1]) :
        k \in 1..nb, f \in FluxVals}

\* the trial vectors: every shape with equal fluxes, and the good shapes with
\* every flux vector
ParsSet(m, nb) ==
    {sh \o Arr([b \in 1..nb |-> 1]) : sh \in Shapes(m)}
       \cup {sh \o fl : sh \in GoodShapes(m), fl \in FluxVecs(nb)}

\* a guess that every variant of the renderer accepts
Guess0(m, nb) ==
    (CHOOSE sh \in GoodShapes(m) : TRUE) \o Arr([b \in 1..nb |-> 1])

Guesses(m, nb) ==
    ParsSet(m, nb)
       \cup {SubSeq(g, 1, Len(g) - 1) : g \in ParsSet(m, nb)}
       \cup {Append(g, 1) : g \in ParsSet(m, nb)}

\* the trial vectors whose shear is in range
RoundSet(m, nb) == {p \in ParsSet(m, nb) : ~ShearFails(p[3], p[4])}

\* the fitter's result: its flags and the parameter vector it ended at
Results(m, nb) == [flags : {0, 1}, pars : RoundSet(m, nb)]

\* the record of a call: its arguments, its outcome, and (alias, after) for
\* the array object passed as the parameter vector: whether it is the array
\* get_band_pars returned, and what it holds when the call has ended
NoCall == [op |-> "none", cls |-> "none", pars |-> None, band |-> 0,
           flags |-> 0, alias |-> FALSE, after |-> None, out |-> "none",
           exc |-> "none", step |-> "none", val |-> None]

Call(op, pars, alias, r) ==
    [op |-> op, cls |-> "none", pars |-> pars, band |-> 0, flags |-> 0,
     alias |-> alias, after |-> IF alias THEN r.bp ELSE pars,
     out |-> r.out, exc |-> r.exc, step |-> r.step, val |-> r.val]

\* ------------------------------------------------ calls in progress
Threads == {1, 2}

\* A call in progress: the method (op), the statement the thread is at (pos),
\* and the locals of the call: pars, the loop indices band (b, 0-based) and
\* epoch (e, 1-based), gal, fdiff, start, s2n_sum.  alone says that no other
\* thread has taken a step since the call began.
Idle == [op |-> "idle", pos |-> "idle", pars |-> None, b |-> 0, e |-> 0,
         gal |-> None, fdiff |-> None, start |-> 0, sum |-> 0,
         alone |-> TRUE, out |-> "none", exc |-> "none", val |-> None]

\* the number of observations of all bands
NObs(mb) == SumSeq(Arr([b \in 1..Len(mb) |-> Len(mb[b])]))

Running(x) == x.pos \notin {"idle", "done"}

\* thread t has taken a step: the calls of the others no longer run alone
Stepped(thn, t) ==
    [u \in Threads |->
        IF u # t /\ Running(thn[u]) THEN [thn[u] EXCEPT !.alone = FALSE]
        ELSE thn[u]]

\* the exception k is raised in the call x: in calc_fdiff it passes the
\* handler of _fill_models and then the handler of calc_fdiff, calc_s2n_r
\* has no handler
ThFail(x, k) ==
    IF x.op = "calc_fdiff"
    THEN IF IsRuntimeError(k) \/ k = "GMixRangeError"
         THEN [x EXCEPT !.pos = "done", !.out = "return", !.gal = None,
                        !.fdiff = Arr([i \in 1..Len(@) |-> LOWVAL]),
                        !.val = Arr([i \in 1..Len(x.fdiff) |-> LOWVAL])]
         ELSE [x EXCEPT !.pos = "done", !.out = "raise", !.exc = k,
                        !.gal = None]
    ELSE [x EXCEPT !.pos = "done", !.out = "raise", !.exc = k, !.gal = None]

\* the loops over bands and epochs: the position after observation (b, e),
\* inner the statement of the next epoch, outer the one of the next band,
\* after the one that follows the loops
ThAdvance(x, mb, inner, outer, after) ==
    IF x.e < Len(mb[x.b + 1]) THEN [x EXCEPT !.e = @ + 1, !.pos = inner]
    ELSE IF x.b + 1 < Len(mb) THEN [x EXCEPT !.b = @ + 1, !.e = 1,
                                            !.pos = outer]
    ELSE [x EXCEPT !.b = 0, !.e = 1, !.pos = after]

\* ------------------------------------------------ gaussmom.py: GaussMom
\* The numbers of a moments result are multiples of 16, so that the products
\* with fac = 1/area and with fac**2 are exact for the areas below.
Areas == {1, 2, 4}

\* x *= fac and x *= fac**2 with fac = 1/area
MulFac(x, area)  == x \div area
MulFac2(x, area) == x \div (area * area)
MulFacArr(x, area)  == Arr([i \in 1..Len(x) |-> MulFac(x[i], area)])
MulFac2Arr(x, area) == Arr([i \in 1..Len(x) |-> MulFac2(x[i], area)])

\* what self.weight.get_weighted_moments returns: flags and flagstr, the flux
\* and its error, pars = [v, u, M1, M2, T, flux], the moment sums with their
\* covariance (ravel()ed), normalisation and errors, and entries that are no
\* sums (T, npix)
MomResults ==
    {[flags |-> fl, flagstr |-> IF fl = 0 THEN "" ELSE "failed",
      flux |-> f, flux_err |-> 16,
      pars |-> <<0, 16, 32, -16, T, f>>,
      sums |-> <<sm, f>>, sums_cov |-> <<64, -16, -16, sm + 32>>,
      sums_norm |-> w + 16, wsum |-> w, sums_err |-> <<32, 16>>,
      T |-> T, npix |-> 48] :
        fl \in {0, 1, 4}, f \in {32, 80}, T \in {16, 48},
        sm \in {-32, 64}, w \in {16, 48}}

\* mutant: the covariance is multiplied by fac, not by fac**2
_measure_moments_cov1(r, area) ==
    IF r.flags # 0 THEN [res |-> r, jac |-> FALSE]
    ELSE [res |-> [r EXCEPT
                     !.flux      = MulFac(@, area),
                     !.flux_err  = MulFac(@, area),
                     !.pars[6]   = MulFac(@, area),
                     !.sums      = MulFacArr(@, area),
                     !.sums_cov  = MulFacArr(@, area),
                     !.sums_norm = MulFac(@, area),
                     !.wsum      = MulFac(@, area),
                     !.sums_err  = MulFacArr(@, area)],
          jac |-> TRUE]

\* r is the result of get_weighted_moments, area is obs.jacobian.area;
\* jac says that obs.jacobian was read
_measure_moments(r, area) ==
    IF r.flags # 0 THEN [res |-> r, jac |-> FALSE]
    ELSE [res |-> [r EXCEPT
                     !.flux      = MulFac(@, area),
                     !.flux_err  = MulFac(@, area),
                     !.pars[6]   = MulFac(@, area),
                     !.sums      = MulFacArr(@, area),
                     !.sums_cov  = MulFac2Arr(@, area),
                     !.sums_norm = MulFac(@, area),
                     !.wsum      = MulFac(@, area),
                     !.sums_err  = MulFacArr(@, area)],
          jac |-> TRUE]

\* logged says that the failure was written to the debug log
go(r, area) ==
    Only({[res |-> m.res, jac |-> m.jac, logged |-> m.res.flags # 0] :
             m \in {_measure_moments(r, area)}})

NoMom == [called |-> FALSE, in |-> None, area |-> 0, res |-> None,
          jac |-> FALSE, logged |-> FALSE]

\* ------------------------------------------------ the state machine
Init ==
    /\ pc = "new"
    /\ gs \in [stage : {"none", "ctor", "draw"}, kind : ErrKinds]
    /\ model = "none"
    /\ prior = FALSE
    /\ nband = 0
    /\ mb_kobs = None
    /\ n_prior_pars = 0
    /\ totpix = 0
    /\ fdiff_size = 0
    /\ npars = 0
    /\ band_pars = None
    /\ res = NoRes
    /\ held = FALSE
    /\ th = [t \in Threads |-> Idle]
    /\ mom = NoMom
    /\ last = NoCall

\* the module-level function get_galsim_npars(model, nband); it neither reads
\* nor writes a fit model, so it is exercised before one is constructed
GetGalsimNpars(m, nb) ==
    /\ pc = "new"
    /\ last' = [NoCall EXCEPT
                  !.op = "get_galsim_npars", !.pars = <<m, nb>>,
                  !.out = IF get_galsim_npars_exc(m) = "none"
                          THEN "return" ELSE "raise",
                  !.exc = get_galsim_npars_exc(m),
                  !.val = IF get_galsim_npars_exc(m) = "none"
                          THEN get_galsim_npars(m, nb) ELSE None]
    /\ UNCHANGED <<pc, gs, model, prior, nband, mb_kobs, n_prior_pars,
                   totpix, fdiff_size, npars, band_pars, res, held, th, mom>>

\* cl(obs, model, guess, prior): GalsimFitModel.__init__, which the
\* subclasses call with model = 'spergel' and model = 'moffat'
Construct(cl, m, obs, nb, hasprior, guess) ==
    /\ pc = "new"
    /\ cl = "GalsimSpergelFitModel" => m = "spergel"
    /\ cl = "GalsimMoffatFitModel" => m = "moffat"
    /\ model' = m
    /\ UNCHANGED <<gs, res, held, th, mom>>
    /\ IF set_model_class_exc(cl, m) # "none"
       THEN /\ pc' = "failed"
            /\ last' = [NoCall EXCEPT !.op = "__init__", !.cls = cl,
                          !.pars = guess,
                          !.out = "raise", !.step = "model_class",
                          !.exc = set_model_class_exc(cl, m)]
            /\ UNCHANGED <<prior, nband, mb_kobs, n_prior_pars, totpix,
                           fdiff_size, npars, band_pars>>
       ELSE LET kobs == make_kobs(nb, obs)
                np   == _set_n_prior_pars(m, hasprior, nb)
                tp   == _set_totpix(kobs)
                mb   == _init_model_images(kobs)
            IN /\ prior' = hasprior
               /\ nband' = nb
               /\ n_prior_pars' = np
               /\ totpix' = tp
               /\ fdiff_size' = _set_fdiff_size(np, tp)
               /\ mb_kobs' = mb
               /\ IF get_galsim_npars_exc(m) # "none"
                  THEN /\ pc' = "failed"
                       /\ last' = [NoCall EXCEPT !.op = "__init__", !.cls = cl,
                                     !.pars = guess, !.out = "raise",
                                     !.step = "npars",
                                     !.exc = get_galsim_npars_exc(m)]
                       /\ UNCHANGED <<npars, band_pars>>
                  ELSE LET n == get_galsim_npars(m, nb)
                           g == _check_guess(m, _set_band_pars(n, nb),
                                             guess, n, nb)
                       IN /\ npars' = n
                          /\ band_pars' = g.bp
                          /\ pc' = IF g.exc = "none" THEN "ready"
                                   ELSE "failed"
                          /\ last' = [NoCall EXCEPT !.op = "__init__",
                                        !.cls = cl, !.pars = guess,
                                        !.out = IF g.exc = "none"
                                                THEN "return" ELSE "raise",
                                        !.step = g.step, !.exc = g.exc]

\* The calls take the parameter vector by reference.  alias says that the
\* array passed in is the one get_band_pars returned, self._band_pars itself:
\* what the call reads from it is what the buffer holds.
CalcFdiff(pars, alias) ==
    /\ pc = "ready"
    /\ alias => (held /\ pars = band_pars)
    /\ \E r \in {calc_fdiff(model, mb_kobs, band_pars, prior, n_prior_pars,
                           fdiff_size, pars)} :
          /\ mb_kobs' = r.mb
          /\ band_pars' = r.bp
          /\ last' = Call("calc_fdiff", pars, alias, r)
    /\ UNCHANGED <<pc, gs, model, prior, nband, n_prior_pars, totpix,
                   fdiff_size, npars, res, held, th, mom>>

CalcS2nR(pars, alias) ==
    /\ pc = "ready"
    /\ alias => (held /\ pars = band_pars)
    /\ \E r \in {calc_s2n_r(model, mb_kobs, band_pars, pars)} :
          /\ mb_kobs' = r.mb
          /\ band_pars' = r.bp
          /\ last' = Call("calc_s2n_r", pars, alias, r)
    /\ UNCHANGED <<pc, gs, model, prior, nband, n_prior_pars, totpix,
                   fdiff_size, npars, res, held, th, mom>>

\* the caller keeps the array that is returned: self._band_pars
GetBandPars(pars, band, alias) ==
    /\ pc = "ready"
    /\ alias => (held /\ pars = band_pars)
    /\ band_pars' = get_band_pars(model, band_pars, pars, band)
    /\ held' = TRUE
    /\ last' = [NoCall EXCEPT !.op = "get_band_pars", !.pars = pars,
                  !.band = band, !.alias = alias,
                  !.after = IF alias THEN band_pars' ELSE pars,
                  !.out = "return", !.val = band_pars']
    /\ UNCHANGED <<pc, gs, model, prior, nband, mb_kobs, n_prior_pars,
                   totpix, fdiff_size, npars, res, th, mom>>

SetFitResult(result) ==
    /\ pc = "ready"
    /\ \E r \in {set_fit_result(model, mb_kobs, band_pars, res, result)} :
          /\ res' = r.val
          /\ mb_kobs' = r.mb
          /\ band_pars' = r.bp
          /\ last' = [NoCall EXCEPT !.op = "set_fit_result",
                        !.pars = result.pars, !.flags = result.flags,
                        !.after = result.pars, !.out = r.out,
                        !.exc = r.exc, !.step = r.step]
    /\ UNCHANGED <<pc, gs, model, prior, nband, n_prior_pars, totpix,
                   fdiff_size, npars, held, th, mom>>

\* ---- the statements of a call, one thread at a time; the threads are
\* followed on instances of at most MaxObs observations
\* calc_fdiff: fdiff = np.zeros(self.fdiff_size); calc_s2n_r: s2n_sum = 0.0
ThBegin(t, op, pars) ==
    /\ pc = "ready"
    /\ th[t].op = "idle"
    /\ NObs(mb_kobs) <= MaxObs
    /\ th' = Stepped([th EXCEPT ![t] =
                        [Idle EXCEPT !.op = op, !.pos = "band",
                                     !.pars = pars,
                                     !.fdiff = IF op = "calc_fdiff"
                                               THEN Zeros(fdiff_size)
                                               ELSE None]], t)
    /\ UNCHANGED <<pc, gs, model, prior, nband, mb_kobs, n_prior_pars,
                   totpix, fdiff_size, npars, band_pars, res, held, mom,
                   last>>

\* band_pars = self.get_band_pars(pars, band): the shared buffer is written
ThBand(t) ==
    /\ th[t].pos = "band"
    /\ band_pars' = get_band_pars(model, band_pars, th[t].pars, th[t].b)
    /\ th' = Stepped([th EXCEPT ![t].pos = "make", ![t].e = 1], t)
    /\ UNCHANGED <<pc, gs, model, prior, nband, mb_kobs, n_prior_pars,
                   totpix, fdiff_size, npars, res, held, mom, last>>

\* gal = self.make_model(band_pars), in calc_s2n_r of the round copy:
\* band_pars is the shared buffer and is read now
ThMake(t) ==
    /\ th[t].pos = "make"
    /\ \E rp \in {IF th[t].op = "calc_s2n_r" THEN round_pars(band_pars)
                   ELSE [band |-> band_pars, round |-> band_pars]} :
          \E r \in {make_model(model, rp.round)} :
             /\ band_pars' = rp.band
             /\ th' = Stepped([th EXCEPT ![t] =
                                 IF r.exc # "none" THEN ThFail(@, r.exc)
                                 ELSE [@ EXCEPT !.gal = r.gal,
                                                !.pos = "draw"]], t)
    /\ UNCHANGED <<pc, gs, model, prior, nband, mb_kobs, n_prior_pars,
                   totpix, fdiff_size, npars, res, held, mom, last>>

\* the profile is drawn into the model buffer of the observation and
\* multiplied by the PSF image; calc_s2n_r squares it, multiplies it by the
\* weight and adds its sum to s2n_sum
ThDraw(t) ==
    /\ th[t].pos = "draw"
    /\ LET x == th[t]  kobs == mb_kobs[x.b + 1][x.e] IN
       IF DrawFails(x.gal)
       THEN /\ th' = Stepped([th EXCEPT ![t] = ThFail(x, gs.kind)], t)
            /\ UNCHANGED mb_kobs
       ELSE \E km \in {IF x.op = "calc_fdiff"
                        THEN _drawKImage(x.gal, kobs.meta.kmodel)
                        ELSE drawKImage(x.gal, Len(kobs.meta.kmodel))} :
            \E km2 \in {IF has_psf(kobs) THEN kmul(km, kobs.psf) ELSE km} :
            \E km3 \in {IF x.op = "calc_fdiff" THEN km2
                         ELSE Power(km2, kobs.weight)} :
               /\ mb_kobs' = [mb_kobs EXCEPT ![x.b + 1][x.e].meta.kmodel = km3]
               /\ th' = Stepped([th EXCEPT ![t] =
                         IF x.op = "calc_fdiff"
                         THEN ThAdvance([x EXCEPT !.gal = None], mb_kobs,
                                        "make", "band", "priors")
                         ELSE ThAdvance(
                                 [x EXCEPT !.gal = None,
                                           !.sum = @ + SumSeq(RealPart(km3))
                                                     + SumSeq(ImagPart(km3))],
                                 mb_kobs, "make", "band", "ret")], t)
    /\ UNCHANGED <<pc, gs, model, prior, nband, n_prior_pars, totpix,
                   fdiff_size, npars, band_pars, res, held, mom, last>>

\* start = self._fill_priors(pars, fdiff)
ThPriors(t) ==
    /\ th[t].pos = "priors"
    /\ \E p \in {_fill_priors(prior, n_prior_pars, th[t].pars,
                               th[t].fdiff)} :
          th' = Stepped([th EXCEPT ![t].fdiff = p.fdiff,
                                   ![t].start = p.start,
                                   ![t].pos = "resid"], t)
    /\ UNCHANGED <<pc, gs, model, prior, nband, mb_kobs, n_prior_pars,
                   totpix, fdiff_size, npars, band_pars, res, held, mom,
                   last>>

\* scratch = (kmodel - kimage) * ierr in the scratch buffer of the
\* observation, then its real and imaginary parts are copied into fdiff
ThResid(t) ==
    /\ th[t].pos = "resid"
    /\ LET x == th[t] IN
       \E scratch \in {Residual(mb_kobs[x.b + 1][x.e])} :
          /\ mb_kobs' = [mb_kobs EXCEPT ![x.b + 1][x.e].meta.scratch = scratch]
          /\ th' = Stepped([th EXCEPT ![t] =
                IF ~SliceFits(x.fdiff, x.start, RealPart(scratch))
                   \/ ~SliceFits(x.fdiff, x.start + Len(scratch),
                                 ImagPart(scratch))
                THEN [x EXCEPT !.pos = "done", !.out = "raise",
                               !.exc = "ValueError"]
                ELSE ThAdvance(
                        [x EXCEPT !.fdiff = StoreEpoch(@, x.start, scratch),
                                  !.start = @ + Len(scratch) + Len(scratch)],
                        mb_kobs, "resid", "resid", "ret")], t)
    /\ UNCHANGED <<pc, gs, model, prior, nband, n_prior_pars, totpix,
                   fdiff_size, npars, band_pars, res, held, mom, last>>

\* return fdiff; return s2n
ThReturn(t) ==
    /\ th[t].pos = "ret"
    /\ th' = Stepped([th EXCEPT ![t].pos = "done", ![t].out = "return",
                                ![t].val = IF th[t].op = "calc_fdiff"
                                           THEN th[t].fdiff
                                           ELSE s2n(th[t].sum)], t)
    /\ UNCHANGED <<pc, gs, model, prior, nband, mb_kobs, n_prior_pars,
                   totpix, fdiff_size, npars, band_pars, res, held, mom,
                   last>>

\* GaussMom.go(obs): r is what the weighted-moments measurement of obs gives
Go(r, area) ==
    /\ \E g \in {go(r, area)} :
          mom' = [called |-> TRUE, in |-> r, area |-> area, res |-> g.res,
                  jac |-> g.jac, logged |-> g.logged]
    /\ UNCHANGED <<pc, gs, model, prior, nband, mb_kobs, n_prior_pars,
                   totpix, fdiff_size, npars, band_pars, res, held, th,
                   last>>

Next ==
    \/ /\ pc = "new"
       /\ \E cl \in Classes, m \in ModelNames, nb \in 1..MaxBand,
             hasprior \in BOOLEAN :
             \E guess \in Guesses(m, nb) :
                Construct(cl, m, "plain", nb, hasprior, guess)
    \/ /\ pc = "ready"
       /\ \E pars \in ParsSet(model, nband) : CalcFdiff(pars, FALSE)
    \/ /\ pc = "ready"
       /\ \E pars \in ParsSet(model, nband) : CalcS2nR(pars, FALSE)

\* the residual engine: construction, then the calls of the optimizer
Spec == Init /\ [][Next]_vars

NextPack ==
    \/ /\ pc = "new"
       /\ \E m \in ModelNames, nb \in 1..MaxBand : GetGalsimNpars(m, nb)
    \/ /\ pc = "new"
       /\ \E cl \in Classes, m \in ModelNames, nb \in 1..MaxBand,
             hasprior \in BOOLEAN :
             \E guess \in Guesses(m, nb) :
                Construct(cl, m, "plain", nb, hasprior, guess)
    \/ /\ pc = "ready"
       /\ \E pars \in ParsSet(model, nband), band \in 0..(nband - 1) :
             GetBandPars(pars, band, FALSE)

\* the registry and the parameter packing
SpecPack == Init /\ [][NextPack]_vars

NextStat ==
    \/ /\ pc = "new"
       /\ \E cl \in Classes, m \in ModelNames, obs \in ObsKinds,
             nb \in 1..MaxBand :
             Construct(cl, m, obs, nb, TRUE, Guess0(m, nb))
    \/ /\ pc = "ready"
       /\ \E pars \in RoundSet(model, nband) : CalcS2nR(pars, FALSE)
    \/ /\ pc = "ready"
       /\ \E result \in Results(model, nband) : SetFitResult(result)

\* the statistics of a fit: calc_s2n_r and set_fit_result
SpecStat == Init /\ [][NextStat]_vars

\* the parameter vectors a caller can pass: an array of its own, or (when it
\* has the length of a full parameter vector) the array get_band_pars returned
Vectors ==
    [alias : {FALSE}, val : RoundSet(model, nband)]
       \cup (IF held /\ Len(band_pars) = npars
             THEN {[alias |-> TRUE, val |-> band_pars]} ELSE {})

NextVec ==
    \/ /\ pc = "new"
       /\ \E cl \in Classes, m \in ModelNames, nb \in 1..MaxBand :
             Construct(cl, m, "plain", nb, TRUE, Guess0(m, nb))
    \/ /\ pc = "ready"
       /\ \E v \in Vectors, band \in 0..(nband - 1) :
             GetBandPars(v.val, band, v.alias)
    \/ /\ pc = "ready"
       /\ \E v \in Vectors : CalcFdiff(v.val, v.alias)
    \/ /\ pc = "ready"
       /\ \E v \in Vectors : CalcS2nR(v.val, v.alias)

\* the caller's parameter vector, passed by reference
SpecVec == Init /\ [][NextVec]_vars

\* thread 1 evaluates the residuals; thread 2 evaluates them too or computes
\* the round signal-to-noise
ThreadOps(t) == IF t = 1 THEN {"calc_fdiff"} ELSE {"calc_fdiff", "calc_s2n_r"}

\* the vectors the threads pass: those that differ in nothing but the size
\* and the flux of the last band
ConcPars(m, nb) ==
    {p \in RoundSet(m, nb) :
        \A i \in 1..(Len(p) - 1) : i > Len(p) - nb => p[i] = 1}

\* a renderer that accepts every flux
InitConc == Init /\ gs = [stage |-> "none", kind |-> "ValueError"]

NextConc ==
    \/ /\ pc = "new"
       /\ \E cl \in Classes, m \in ModelNames, nb \in 1..MaxBand :
             Construct(cl, m, "plain", nb, TRUE, Guess0(m, nb))
    \/ /\ pc = "ready"
       /\ \E t \in Threads : \E op \in ThreadOps(t) :
             \E pars \in ConcPars(model, nband) : ThBegin(t, op, pars)
    \/ \E t \in Threads : ThBand(t)
    \/ \E t \in Threads : ThMake(t)
    \/ \E t \in Threads : ThDraw(t)
    \/ \E t \in Threads : ThPriors(t)
    \/ \E t \in Threads : ThResid(t)
    \/ \E t \in Threads : ThReturn(t)

\* two threads that call the same instance, their statements interleaved
SpecConc == InitConc /\ [][NextConc]_vars

NextMom == \E r \in MomResults, area \in Areas : Go(r, area)

\* gaussmom.py: the weighted moments of an observation
SpecMom == Init /\ [][NextMom]_vars

\* ================================================================ claims
Sentinel(v) == \A i \in 1..Len(v) : v[i] = LOWVAL

\* size of the Fourier data arrays of band b, of all bands, and of the
\* observations that come before epoch e of band b
BandPixels(b) ==
    SumSeq(Arr([e \in 1..Len(mb_kobs[b]) |-> Len(mb_kobs[b][e].kimage)]))
TotalPixels == SumSeq(Arr([b \in 1..Len(mb_kobs) |-> BandPixels(b)]))
PixelsBefore(b, e) ==
    SumSeq(Arr([bb \in 1..(b - 1) |-> BandPixels(bb)]))
    + SumSeq(Arr([ee \in 1..(e - 1) |-> Len(mb_kobs[b][ee].kimage)]))

FdiffReturned == last.op = "calc_fdiff" /\ last.out = "return"
FdiffNormal   == FdiffReturned /\ last.step = "none"

\* C1: whenever calc_fdiff returns, on the normal path or with the sentinel,
\* the vector has n_prior_pars + 2 * (total Fourier pixel count) entries:
\* 7 + 2 * (pixels of band 0 + pixels of band 1) for a two-band Spergel model
\* with a prior, and 2 * (total pixel count) without a prior.
InvC1 ==
    FdiffReturned =>
        /\ Len(last.val) = n_prior_pars + 2 * TotalPixels
        /\ (model = "spergel" /\ nband = 2 /\ prior)
              => Len(last.val) = 7 + 2 * (BandPixels(1) + BandPixels(2))
        /\ ~prior => Len(last.val) = 2 * TotalPixels

WitC1 ==
    /\ FdiffNormal
    /\ model = "spergel" /\ nband = 2 /\ prior
    /\ Len(last.val) = 7 + 2 * TotalPixels

\* C2 (as claimed): for every variant, calc_fdiff with a size pars[4] below
\* the threshold returns a vector whose entries all equal LOWVAL.
ClaimC2 ==
    (last.op = "calc_fdiff" /\ last.pars[5] < R50Min)
        => (last.out = "return" /\ Sentinel(last.val))

\* C3: when the shear is out of range (g1 = 1.5) and the round model of the
\* first band can be built, so that the shear step fails, calc_fdiff raises
\* nothing and returns the vector filled with LOWVAL.
InvC3 ==
    (/\ pc = "ready"
     /\ last.op = "calc_fdiff"
     /\ ShearFails(last.pars[3], last.pars[4])
     /\ make_round_model(model,
            get_band_pars(model, Zeros(npars - nband + 1), last.pars, 0)).exc
          = "none")
        => /\ last.step = "shear"
           /\ last.out = "return" /\ last.exc = "none"
           /\ Len(last.val) = fdiff_size
           /\ Sentinel(last.val)

WitC3 ==
    /\ last.op = "calc_fdiff" /\ last.step = "shear"
    /\ last.pars[3] = 3
    /\ gs.kind = "ValueError"
    /\ Sentinel(last.val)

\* C4 (as claimed): whatever failure the renderer reports while the round
\* model is built, in the shear step or while drawing, calc_fdiff returns the
\* sentinel vector and no renderer error reaches the caller.
ClaimC4 ==
    (last.op = "calc_fdiff" /\ last.step \in {"ctor", "shear", "draw"})
        => (last.out = "return" /\ Sentinel(last.val))

\* C5: on the normal path positions [0, n_prior_pars) hold the prior terms;
\* then, bands in increasing order and epochs in list order, each observation
\* holds imsize entries real(model - data) * ierr followed by imsize entries
\* imag(model - data) * ierr, the real part of an observation starting at
\* n_prior_pars + 2 * (size of all earlier observations), and the last
\* observation ends at the end of the vector.
InvC5 ==
    FdiffNormal =>
        /\ \A k \in 1..n_prior_pars : last.val[k] = PriorTerm(last.pars, k)
        /\ \A b \in 1..nband : \A e \in 1..Len(mb_kobs[b]) :
              LET kobs   == mb_kobs[b][e]
                  imsize == Len(kobs.kimage)
                  start  == n_prior_pars + 2 * PixelsBefore(b, e)
              IN \A i \in 1..imsize :
                    /\ last.val[start + i] =
                          (kobs.meta.kmodel[i][1] - kobs.kimage[i][1])
                             * kobs.meta.ierr[i]
                    /\ last.val[start + imsize + i] =
                          (kobs.meta.kmodel[i][2] - kobs.kimage[i][2])
                             * kobs.meta.ierr[i]
        /\ Len(last.val) = n_prior_pars + 2 * TotalPixels

WitC5 ==
    /\ FdiffNormal
    /\ nband = 2 /\ prior
    /\ last.pars[Len(last.pars)] # last.pars[Len(last.pars) - 1]
    /\ \E i \in 1..Len(last.val) :
          i > n_prior_pars /\ last.val[i] \notin {0, LOWVAL}

\* C6: after any sequence of calc_fdiff and calc_s2n_r calls, calc_fdiff(p)
\* returns (or raises) what a freshly constructed instance returns for p.
FreshKobs == _init_model_images(make_kobs(nband, "plain"))

InvC6 ==
    (pc = "ready" /\ last.op = "calc_fdiff") =>
        \A guess \in ParsSet(model, nband) :
           \A c \in {_check_guess(model, _set_band_pars(npars, nband), guess,
                                  npars, nband)} :
              c.exc = "none" =>
                 \A f \in {calc_fdiff(model, FreshKobs, c.bp, prior,
                                      n_prior_pars, fdiff_size, last.pars)} :
                    /\ f.out = last.out
                    /\ f.exc = last.exc
                    /\ f.val = last.val

\* a call that failed after it had rendered band 0, on an instance whose
\* scratch buffer still holds the residual of an earlier successful call
WitC6 ==
    /\ last.op = "calc_fdiff" /\ last.out = "return"
    /\ last.step \in {"ctor", "draw"}
    /\ nband = 2
    /\ last.pars[Len(last.pars)] = BadFlux
    /\ mb_kobs[1][1].meta.kmodel # FreshKobs[1][1].meta.kmodel
    /\ mb_kobs[1][1].meta.scratch # FreshKobs[1][1].meta.scratch

\* C7: get_galsim_npars(model, nband) is 5 + nband for exp, dev and gauss
\* and 6 + nband for spergel and moffat, and the per-band buffer allocated at
\* construction has npars - nband + 1 entries (6 or 7).
InvC7 ==
    /\ last.op = "get_galsim_npars" =>
          LET m == last.pars[1]  nb == last.pars[2] IN
          /\ m \in {"exp", "dev", "gauss"}
                => (last.out = "return" /\ last.val = 5 + nb)
          /\ m \in {"spergel", "moffat"}
                => (last.out = "return" /\ last.val = 6 + nb)
    /\ pc = "ready" =>
          /\ npars = (IF model \in {"spergel", "moffat"} THEN 6 ELSE 5) + nband
          /\ Len(band_pars) = npars - nband + 1
          /\ Len(band_pars) = (IF model \in {"spergel", "moffat"} THEN 7 ELSE 6)

WitC7 ==
    /\ last.op = "get_galsim_npars"
    /\ last.pars[1] = "moffat" /\ last.pars[2] = 2
    /\ last.val = 8

\* C8: get_galsim_npars raises for every name outside exp, dev, gauss,
\* spergel, moffat; GalsimFitModel given a name it does not support raises
\* from the constructor before an observation is converted or a meta entry is
\* written, and no fit model comes out of it.
InvC8 ==
    /\ (/\ last.op = "get_galsim_npars"
        /\ last.pars[1] \notin {"exp", "dev", "gauss", "spergel", "moffat"})
          => (last.out = "raise" /\ last.exc = "ValueError")
    /\ (/\ last.op = "__init__"
        /\ last.cls = "GalsimFitModel"
        /\ model \notin {"exp", "dev", "gauss"})
          => /\ pc = "failed"
             /\ last.out = "raise" /\ last.exc = "NotImplementedError"
             /\ mb_kobs = None
             /\ band_pars = None
    /\ pc = "ready" => model \in {"exp", "dev", "gauss", "spergel", "moffat"}

WitC8 ==
    /\ last.op = "__init__" /\ last.cls = "GalsimFitModel"
    /\ model = "sersic"
    /\ pc = "failed" /\ mb_kobs = None

\* C9: get_band_pars(pars, b) is the shape-independent prefix of pars (5
\* entries, 6 for spergel and moffat) followed by the flux of band b, so a
\* vector that differs from pars only in the flux of other bands has the same
\* slice for band b.
NShape == IF model \in {"spergel", "moffat"} THEN 6 ELSE 5

InvC9 ==
    last.op = "get_band_pars" =>
        LET p == last.pars  b == last.band IN
        /\ last.val = SubSeq(p, 1, NShape) \o <<p[NShape + 1 + b]>>
        /\ \A q \in ParsSet(model, nband) :
              (\A i \in (1..NShape) \cup {NShape + 1 + b} : q[i] = p[i])
                 => get_band_pars(model, band_pars, q, b) = last.val

WitC9 ==
    /\ last.op = "get_band_pars"
    /\ nband = 2 /\ last.band = 1
    /\ last.pars[NShape + 1] # last.pars[NShape + 2]
    /\ last.val[NShape + 1] = last.pars[NShape + 2]

\* C10: the constructor raises when the guess has not npars entries, raises
\* the rendering failure when the trial build of some band fails, and
\* succeeds only if the trial build of every band succeeded.
GuessSlice(guess, b) == SubSeq(guess, 1, NShape) \o <<guess[NShape + b]>>
BuildOk(guess, b)    == make_model(model, GuessSlice(guess, b)).exc = "none"

InvC10 ==
    (last.op = "__init__" /\ last.step # "model_class") =>
        LET guess == last.pars IN
        /\ Len(guess) # NShape + nband
              => (pc = "failed" /\ last.out = "raise"
                    /\ last.exc = "ValueError")
        /\ (Len(guess) = NShape + nband
              /\ \E b \in 1..nband : ~BuildOk(guess, b))
              => (pc = "failed" /\ last.out = "raise"
                    /\ last.exc \in {"GMixRangeError", "RuntimeError",
                                     "ValueError"})
        /\ pc = "ready"
              <=> (Len(guess) = NShape + nband
                     /\ \A b \in 1..nband : BuildOk(guess, b))

\* the guess is fine for band 0 and the build of band 1 fails
WitC10 ==
    /\ last.op = "__init__" /\ pc = "failed"
    /\ nband = 2 /\ Len(last.pars) = NShape + nband
    /\ BuildOk(last.pars, 1) /\ ~BuildOk(last.pars, 2)
    /\ last.exc \in {"GMixRangeError", "ValueError"}

\* C11 (as claimed): with a prior the number of penalty terms reserved at the
\* front of the residual vector is center(1) + ellipticity(1) + size(1) +
\* bands for exp, dev and gauss, and center(1) + ellipticity(1) + size(1) +
\* extra(1) + bands for spergel and moffat; without a prior it is 0.
ClaimC11 ==
    mb_kobs # None =>
        /\ prior /\ model \in {"exp", "dev", "gauss"}
              => n_prior_pars = 1 + 1 + 1 + nband
        /\ prior /\ model \in {"spergel", "moffat"}
              => n_prior_pars = 1 + 1 + 1 + 1 + nband
        /\ ~prior => n_prior_pars = 0

\* C11 (amended): the center counts twice, once per coordinate: with a prior
\* the number of penalty terms is center(2) + ellipticity(1) + size(1) +
\* bands = 4 + nband for exp, dev and gauss, and center(2) + ellipticity(1)
\* + size(1) + extra(1) + bands = 5 + nband for spergel and moffat; without
\* a prior it is 0; the residual vector is that much longer than twice the
\* pixel count.
InvC11 ==
    mb_kobs # None =>
        /\ prior /\ model \in {"exp", "dev", "gauss"}
              => n_prior_pars = 4 + nband
        /\ prior /\ model \in {"spergel", "moffat"}
              => n_prior_pars = 5 + nband
        /\ ~prior => n_prior_pars = 0
        /\ fdiff_size - 2 * TotalPixels = n_prior_pars

WitC11 ==
    /\ pc = "ready" /\ prior
    /\ model = "moffat" /\ nband = 2
    /\ n_prior_pars = 7

\* C15: for every observation the inverse-error array built at construction
\* is 0 where the weight is <= 0 and the square root of the weight where it
\* is > 0, and the model buffer and the difference buffer have the shape of
\* the Fourier data array, at construction and after every call.
InvC15 ==
    mb_kobs # None =>
        \A b \in 1..Len(mb_kobs) : \A e \in 1..Len(mb_kobs[b]) :
            LET kobs == mb_kobs[b][e] IN
            /\ Len(kobs.meta.ierr) = Len(kobs.weight)
            /\ \A i \in 1..Len(kobs.weight) :
                  /\ kobs.weight[i] <= 0 => kobs.meta.ierr[i] = 0
                  /\ kobs.weight[i] > 0
                        => /\ kobs.meta.ierr[i] > 0
                           /\ kobs.meta.ierr[i] * kobs.meta.ierr[i]
                                 = kobs.weight[i]
            /\ Len(kobs.meta.kmodel) = Len(kobs.kimage)
            /\ Len(kobs.meta.scratch) = Len(kobs.kimage)

\* an instance with a pixel of negative weight, one of zero weight and one of
\* positive weight, after a call has rewritten the buffers
WitC15 ==
    /\ pc = "ready" /\ last.op = "calc_fdiff" /\ last.step = "none"
    /\ \E b \in 1..Len(mb_kobs) : \E e \in 1..Len(mb_kobs[b]) :
          \E i \in 1..Len(mb_kobs[b][e].weight) :
             mb_kobs[b][e].weight[i] < 0 /\ mb_kobs[b][e].meta.ierr[i] = 0
    /\ \E b \in 1..Len(mb_kobs) : \E e \in 1..Len(mb_kobs[b]) :
          \E i \in 1..Len(mb_kobs[b][e].weight) :
             mb_kobs[b][e].weight[i] = 0 /\ mb_kobs[b][e].meta.ierr[i] = 0
    /\ \E b \in 1..Len(mb_kobs) : \E e \in 1..Len(mb_kobs[b]) :
          \E i \in 1..Len(mb_kobs[b][e].weight) :
             mb_kobs[b][e].weight[i] = 4 /\ mb_kobs[b][e].meta.ierr[i] = 2

\* the weighted power of the round model of observation (b, e): the profile
\* of band b with zero ellipticity, multiplied by the PSF image if there is
\* one, real and imaginary part squared and multiplied by the weight
RoundPower(pars, b, e) ==
    LET kobs == mb_kobs[b][e]
        bp   == SubSeq(pars, 1, NShape) \o <<pars[NShape + b]>>
        gal  == make_model(model, [bp EXCEPT ![3] = 0, ![4] = 0]).gal
        km   == drawKImage(gal, Len(kobs.kimage))
        kc   == IF has_psf(kobs) THEN kmul(km, kobs.psf) ELSE km
    IN SumSeq(Arr([i \in 1..Len(kc) |->
                     (kc[i][1] * kc[i][1] + kc[i][2] * kc[i][2])
                        * kobs.weight[i]]))

S2nSum(pars) ==
    SumSeq(Arr([b \in 1..nband |->
                  SumSeq(Arr([e \in 1..Len(mb_kobs[b]) |->
                                RoundPower(pars, b, e)]))]))

\* C12: whenever calc_s2n_r returns, the value is not negative: it is the
\* square root of the accumulated weighted model power when that sum is
\* strictly positive, and exactly 0 when the sum is zero or negative.
InvC12 ==
    (last.op = "calc_s2n_r" /\ last.out = "return") =>
        LET s == S2nSum(last.pars) IN
        /\ last.val >= 0
        /\ s > 0 => /\ last.val * last.val <= s
                    /\ (last.val + 1) * (last.val + 1) > s
        /\ s <= 0 => last.val = 0

\* an observation set without a pixel of positive weight: the sum is negative
WitC12 ==
    /\ last.op = "calc_s2n_r" /\ last.out = "return"
    /\ S2nSum(last.pars) < 0
    /\ last.val = 0

\* C13: set_fit_result copies the entries of the result; when flags == 0 (and
\* calc_s2n_r raises nothing) it stores the round signal-to-noise of
\* self['pars'] and the shape and flux summaries; when flags is not 0 it
\* does nothing else: s2n_r, g and flux stay what they were, calc_s2n_r is
\* not called and the model buffers, the scratch buffers and the per-band
\* buffer are unchanged.
StatC13 ==
    (last.op = "set_fit_result" /\ last.out = "return") =>
        /\ res.flags = last.flags /\ res.pars = last.pars
        /\ last.flags = 0 =>
              /\ {"s2n_r", "g", "flux"} \subseteq res.keys
              /\ res.s2n_r = (IF S2nSum(last.pars) > 0
                              THEN Sqrt(S2nSum(last.pars)) ELSE 0)
              /\ res.g = <<last.pars[3], last.pars[4]>>
              /\ res.flux = SubSeq(last.pars, NShape + 1, Len(last.pars))

FrameC13 ==
    (last'.op = "set_fit_result" /\ last'.flags # 0) =>
        /\ mb_kobs' = mb_kobs
        /\ band_pars' = band_pars
        /\ last'.out = "return"
        /\ res' = [res EXCEPT !.keys = @ \cup {"flags", "pars"},
                              !.flags = last'.flags, !.pars = last'.pars]

InvC13 == []StatC13 /\ [][FrameC13]_vars

\* a failed fit reported after a successful one on a used instance
WitC13 ==
    /\ last.op = "set_fit_result" /\ last.flags # 0
    /\ res.flags # 0 /\ res.pars = last.pars
    /\ {"s2n_r", "g", "flux"} \subseteq res.keys
    /\ res.flux # SubSeq(last.pars, NShape + 1, Len(last.pars))
    /\ mb_kobs # _init_model_images(make_kobs(nband, "plain"))
    /\ mb_kobs # _init_model_images(make_kobs(nband, "masked"))

\* C14: the array passed as the parameter vector holds after a get_band_pars,
\* calc_fdiff (successful or sentinel) or calc_s2n_r call what it held before
\* it, also when it is the array get_band_pars returned; calc_s2n_r leaves
\* the ellipticity in the per-band buffer as it was written.
InvC14 ==
    /\ last.op \in {"get_band_pars", "calc_fdiff", "calc_s2n_r"}
          => last.after = last.pars
    /\ last.op = "calc_s2n_r"
          => (band_pars[3] = last.pars[3] /\ band_pars[4] = last.pars[4])

\* calc_s2n_r on the array get_band_pars returned, with a shear in it
WitC14 ==
    /\ last.op = "calc_s2n_r" /\ last.out = "return"
    /\ last.alias
    /\ last.pars[4] # 0
    /\ last.after = last.pars /\ band_pars = last.pars

\* C17: GaussMom.go returns the weighted-moments result as it is, without
\* reading the jacobian, when its flags are not 0; when flags == 0 it is the
\* result with flux, flux_err, pars[5], sums, sums_norm, wsum and sums_err
\* multiplied by 1/area and sums_cov by 1/area^2, every other entry and the
\* flags as they were.
InvC17 ==
    mom.called =>
        LET in == mom.in  out == mom.res  a == mom.area IN
        /\ in.flags # 0 => (out = in /\ ~mom.jac)
        /\ in.flags = 0 =>
              /\ out.flux * a = in.flux
              /\ out.flux_err * a = in.flux_err
              /\ out.pars[6] * a = in.pars[6]
              /\ out.sums_norm * a = in.sums_norm
              /\ out.wsum * a = in.wsum
              /\ Len(out.sums) = Len(in.sums)
              /\ \A i \in 1..Len(in.sums) : out.sums[i] * a = in.sums[i]
              /\ Len(out.sums_err) = Len(in.sums_err)
              /\ \A i \in 1..Len(in.sums_err) :
                    out.sums_err[i] * a = in.sums_err[i]
              /\ Len(out.sums_cov) = Len(in.sums_cov)
              /\ \A i \in 1..Len(in.sums_cov) :
                    out.sums_cov[i] * a * a = in.sums_cov[i]
              /\ [out EXCEPT !.flux = in.flux, !.flux_err = in.flux_err,
                             !.pars[6] = in.pars[6], !.sums = in.sums,
                             !.sums_cov = in.sums_cov,
                             !.sums_norm = in.sums_norm, !.wsum = in.wsum,
                             !.sums_err = in.sums_err] = in

WitC17 ==
    /\ mom.called /\ mom.in.flags = 0 /\ mom.area = 4
    /\ mom.res.flux = 20 /\ mom.in.flux = 80
    /\ mom.res.sums_cov[2] = -1
    /\ mom.res.flags = 0 /\ mom.res.T = mom.in.T

\* what the call of thread t returns when it is made alone
Solo(t) ==
    IF th[t].op = "calc_fdiff"
    THEN calc_fdiff(model, mb_kobs, band_pars, prior, n_prior_pars,
                    fdiff_size, th[t].pars)
    ELSE calc_s2n_r(model, mb_kobs, band_pars, th[t].pars)

SameAsSolo(t) ==
    \E r \in {Solo(t)} :
       th[t].out = r.out /\ th[t].exc = r.exc /\ th[t].val = r.val

\* C16: a call during which no other thread took a step ends as the call
\* made alone does, whatever the calls before it left in the buffers; calls
\* whose statements interleave are not safe: a calc_fdiff whose statements
\* interleave with those of another calc_fdiff or of a calc_s2n_r on the
\* same instance can return a residual that differs from the one it returns
\* alone (the state WitC16).
InvC16 ==
    \A t \in Threads :
       (th[t].pos = "done" /\ th[t].alone) => SameAsSolo(t)

\* calc_fdiff of thread 1 has returned residuals that are neither the
\* sentinel nor what the call returns alone
WitC16 ==
    /\ th[1].op = "calc_fdiff" /\ th[1].pos = "done"
    /\ th[1].out = "return" /\ ~Sentinel(th[1].val)
    /\ th[2].op = "calc_fdiff"
    /\ Solo(1).out = "return" /\ ~Sentinel(Solo(1).val)
    /\ th[1].val # Solo(1).val

====
